---- MODULE Spec2Model ----
(***************************************************************************)
(* Model of the useOutsideClickHandler hook                                *)
(* (src/src/useOutsideClickHandler.js) running against the DOM's           *)
(* EventTarget listener list of `document`.                                *)
(*                                                                         *)
(* The document keeps, per event type, an ordered list of listeners; a     *)
(* listener is identified by (type, callback, capture).  addEventListener  *)
(* appends unless an identical triple is present, removeEventListener      *)
(* removes the triple it is given, and an omitted options argument means   *)
(* capture = false.  The hook's handlers are closures memoised with        *)
(* useCallback: a handler keeps its identity until one of its dependencies *)
(* changes, and then a new function (a new generation) replaces it.        *)
(***************************************************************************)
EXTENDS Integers, Sequences, FiniteSets, TLC

\* ---------------------------------------------------------------- bounds
MaxEvents == 3      \* press/release events dispatched in one behaviour
MaxRenders == 2     \* handler generations created by useCallback
MaxMutations == 1   \* changes of ref.current and of the DOM below the roots

\* ---------------------------------------------------------------- inputs
Null == "null"
Div == "div"
Refs == {"r1", "r2"}
Callbacks == {"cb1", "cb2"}
Targets == {"t1", "t2"}
PropsSet == [ref : Refs, onOutsideClick : Callbacks,
             useCapture : BOOLEAN, disabled : BOOLEAN]

VARIABLES
  status,        \* "rendered" (effect not yet run), "attached", "detached"
  props,         \* arguments of the last render: ref, onOutsideClick, options
  handleMouseUp,    \* memoised release handler of the last render
  handleMouseDown,  \* memoised press handler of the last render
  nextGen,       \* identity given to the next function useCallback creates
  current,       \* current[r]: ref.current of ref object r (Null or Div)
  descendants,   \* descendants[r]: targets that the node of r contains
  doc,           \* doc[type]: the document's listener list for that type
  calls,         \* callback invocations made by the last step
  thrown,        \* a callback invoked by the last step threw
  adds,          \* addEventListener calls so far
  removes,       \* removeEventListener calls so far
  nEvents,       \* events dispatched so far
  nMutations,    \* changes of ref.current and of the DOM so far
  step,          \* the operation that produced this state
  event,         \* the event dispatched by the last step, if any
  press,         \* how the last press stood to the root when it was handled
  release,       \* how the last release stood to the root when it was handled
  relSincePress, \* releases dispatched since the last press
  relSinceOut    \* releases dispatched since the last outside press

vars == <<status, props, handleMouseUp, handleMouseDown, nextGen, current,
          descendants, doc, calls, thrown, adds, removes, nEvents,
          nMutations, step, event, press, release, relSincePress, relSinceOut>>

\* ------------------------------------------------------------ DOM: listeners
\* An options argument; NoOptions is a call that passes none.
NoOptions == [given |-> FALSE, capture |-> FALSE]
Options(c) == [given |-> TRUE, capture |-> c]

\* DOM "flatten options": the capture flag of a call, false when omitted.
Flatten(options) == options.given /\ options.capture

Range(s) == {s[i] : i \in 1..Len(s)}

\* EventTarget.addEventListener: append unless the same (callback, capture)
\* is already in the list of that type.
AddEventListener(st, type, fn, options) ==
  LET l == [fn |-> fn, capture |-> Flatten(options)]
  IN IF l \in Range(st.doc[type])
       THEN [st EXCEPT !.adds = @ + 1]
       ELSE [st EXCEPT !.doc[type] = Append(@, l), !.adds = @ + 1]

\* EventTarget.removeEventListener: remove the listener with the same
\* callback and the same capture flag, if there is one.
RemoveEventListener(st, type, fn, options) ==
  LET l == [fn |-> fn, capture |-> Flatten(options)]
  IN [st EXCEPT !.doc[type] = SelectSeq(@, LAMBDA x : x # l),
                !.removes = @ + 1]

\* ------------------------------------------------------------ the hook
\* The descendants of each root's node when the hook is first rendered.
InitialDescendants == [r \in Refs |-> IF r = "r1" THEN {"t1"} ELSE {"t2"}]

\* A containment test against the descendants captured at the first render.
ContainsSnapshot(r, t) == current[r] # Null /\ t \in InitialDescendants[r]

\* A containment test that takes an absent root to contain every target.
ContainsAbsentInside(r, t) == current[r] = Null \/ t \in descendants[r]

\* ref.current && ref.current.contains(target)
Contains(r, t) == current[r] # Null /\ t \in descendants[r]

\* handleMouseUp (lines 7-16), u being the function's own identity and closure.
\* The callback may throw (st.throws); nothing of the handler follows the call,
\* so the exception leaves the handler with the state the call left.
HandleMouseUp(st, u, e) ==
  LET s1 == RemoveEventListener(st, "mouseup", u, NoOptions)
      isDescendantOfRoot == Contains(u.ref, e.target)
  IN IF ~isDescendantOfRoot
       THEN [s1 EXCEPT !.calls = Append(@, [cb |-> u.cb, arg |-> e]),
                       !.thrown = @ \/ s1.throws]
       ELSE s1

\* A press handler that re-arms without first removing the release-listener.
HandleMouseDownNoRemove(st, d, e) ==
  IF ~Contains(d.ref, e.target)
    THEN AddEventListener(st, "mouseup", d.up, Options(d.useCapture))
    ELSE st

\* handleMouseDown (lines 18-29), d being the function's identity and closure.
HandleMouseDown(st, d, e) ==
  LET isDescendantOfRoot == Contains(d.ref, e.target)
  IN IF ~isDescendantOfRoot
       THEN AddEventListener(
              RemoveEventListener(st, "mouseup", d.up, NoOptions),
              "mouseup", d.up, Options(d.useCapture))
       ELSE st

\* useCallback(fn, [ref, onOutsideClick]) of handleMouseUp
UseCallbackUp(prev, p, gen) ==
  IF prev.ref = p.ref /\ prev.cb = p.onOutsideClick
    THEN prev
    ELSE [gen |-> gen, ref |-> p.ref, cb |-> p.onOutsideClick]

\* useCallback(fn, [ref, useCapture, handleMouseUp]) of handleMouseDown
UseCallbackDown(prev, p, u, gen) ==
  IF prev.ref = p.ref /\ prev.useCapture = p.useCapture /\ prev.up = u
    THEN prev
    ELSE [gen |-> gen, ref |-> p.ref, useCapture |-> p.useCapture, up |-> u]

\* body of the effect (lines 32-36)
EffectBody(st, p, d) ==
  IF ~p.disabled
    THEN AddEventListener(st, "mousedown", d, Options(p.useCapture))
    ELSE st

\* cleanup of the effect (lines 38-41)
EffectCleanup(st, d, u) ==
  RemoveEventListener(RemoveEventListener(st, "mousedown", d, NoOptions),
                      "mouseup", u, NoOptions)

\* ------------------------------------------------------------ DOM: dispatch
Invoke(st, l, e) ==
  IF e.type = "mousedown" THEN HandleMouseDown(st, l.fn, e)
                          ELSE HandleMouseUp(st, l.fn, e)

\* DOM "inner invoke": run the listeners of a snapshot of the list, in order,
\* skipping the ones removed meanwhile.
RECURSIVE InnerInvoke(_, _, _)
InnerInvoke(st, snapshot, e) ==
  IF snapshot = <<>> THEN st
  ELSE LET l == Head(snapshot)
           s1 == IF l \in Range(st.doc[e.type]) THEN Invoke(st, l, e) ELSE st
       IN InnerInvoke(s1, Tail(snapshot), e)

\* Dispatch of an event whose target is below the document: the document's
\* capturing listeners run first, its bubbling listeners afterwards.
DispatchEvent(st, e) ==
  LET s1 == InnerInvoke(st, SelectSeq(st.doc[e.type], LAMBDA l : l.capture), e)
  IN InnerInvoke(s1, SelectSeq(s1.doc[e.type], LAMBDA l : ~l.capture), e)

\* ------------------------------------------------------------ state machine
St == [doc |-> doc, calls |-> <<>>, adds |-> adds, removes |-> removes,
       throws |-> FALSE, thrown |-> FALSE]

NoEvent == [type |-> "none", target |-> "none", id |-> 0]
NoPress == [kind |-> "none", live |-> FALSE, armed |-> FALSE]
NoRelease == [kind |-> "none", live |-> FALSE]

Attached == status = "attached"
Live == Attached /\ ~props.disabled
Kind(t) == IF Contains(props.ref, t) THEN "inside" ELSE "outside"

\* State after the first render, before its effect has run.
Init ==
  /\ status = "rendered"
  /\ props \in {p \in PropsSet : p.ref = "r1" /\ p.onOutsideClick = "cb1"}
  /\ handleMouseUp = [gen |-> 1, ref |-> props.ref, cb |-> props.onOutsideClick]
  /\ handleMouseDown = [gen |-> 1, ref |-> props.ref,
                        useCapture |-> props.useCapture, up |-> handleMouseUp]
  /\ nextGen = 2
  /\ current = [r \in Refs |-> Div]
  /\ descendants = InitialDescendants
  /\ doc = [mousedown |-> <<>>, mouseup |-> <<>>]
  /\ calls = <<>>
  /\ thrown = FALSE
  /\ adds = 0
  /\ removes = 0
  /\ nEvents = 0
  /\ nMutations = 0
  /\ step = "init"
  /\ event = NoEvent
  /\ press = NoPress
  /\ release = NoRelease
  /\ relSincePress = 0
  /\ relSinceOut = 0

\* attach: the effect of the first render runs (mount).
Attach ==
  /\ status = "rendered"
  /\ LET s == EffectBody(St, props, handleMouseDown)
     IN /\ doc' = s.doc
        /\ adds' = s.adds
        /\ removes' = s.removes
  /\ status' = "attached"
  /\ step' = "attach"
  /\ calls' = <<>>
  /\ thrown' = FALSE
  /\ event' = NoEvent
  /\ UNCHANGED <<props, handleMouseUp, handleMouseDown, nextGen, current,
                 descendants, nEvents, nMutations, press,
                 release,
                 relSincePress, relSinceOut>>

\* detach: the cleanup of the effect runs (unmount).
Detach ==
  /\ status = "attached"
  /\ LET s == EffectCleanup(St, handleMouseDown, handleMouseUp)
     IN /\ doc' = s.doc
        /\ adds' = s.adds
        /\ removes' = s.removes
  /\ status' = "detached"
  /\ step' = "detach"
  /\ press' = NoPress
  /\ calls' = <<>>
  /\ thrown' = FALSE
  /\ event' = NoEvent
  /\ UNCHANGED <<props, handleMouseUp, handleMouseDown, nextGen, current,
                 descendants, nEvents, nMutations, release,
                 relSincePress, relSinceOut>>

\* The renders that follow a render with arguments p: one argument changes.
NextProps(p) ==
  {q \in PropsSet :
     Cardinality({f \in DOMAIN p : q[f] # p[f]}) = 1}

\* re-sync: a render with a changed argument; useCallback re-creates the
\* handlers whose dependencies changed, and since the effect's dependencies
\* changed the old cleanup runs and then the new effect body.
Render(p) ==
  /\ status = "attached"
  /\ nextGen <= MaxRenders
  /\ LET u == UseCallbackUp(handleMouseUp, p, nextGen)
         d == UseCallbackDown(handleMouseDown, p, u, nextGen)
         s == EffectBody(EffectCleanup(St, handleMouseDown, handleMouseUp), p, d)
     IN /\ handleMouseUp' = u
        /\ handleMouseDown' = d
        /\ doc' = s.doc
        /\ adds' = s.adds
        /\ removes' = s.removes
  /\ props' = p
  /\ nextGen' = nextGen + 1
  /\ step' = "resync"
  /\ press' = NoPress
  /\ calls' = <<>>
  /\ thrown' = FALSE
  /\ event' = NoEvent
  /\ UNCHANGED <<status, current, descendants, nEvents,
                 nMutations, release, relSincePress, relSinceOut>>

\* A press on target t is dispatched on the document of the mounted (or
\* already unmounted) component.
Press(t) ==
  /\ nEvents < MaxEvents
  /\ status # "rendered"
  /\ LET e == [type |-> "mousedown", target |-> t, id |-> nEvents + 1]
         s == DispatchEvent(St, e)
     IN /\ event' = e
        /\ doc' = s.doc
        /\ calls' = s.calls
        /\ thrown' = s.thrown
        /\ adds' = s.adds
        /\ removes' = s.removes
        /\ press' = [kind |-> Kind(t), live |-> Live,
                     armed |-> ~(Range(s.doc.mouseup) \subseteq Range(doc.mouseup))]
  /\ relSincePress' = 0
  /\ relSinceOut' = IF Kind(t) = "outside" THEN 0 ELSE relSinceOut
  /\ nEvents' = nEvents + 1
  /\ step' = "press"
  /\ UNCHANGED <<status, props, handleMouseUp, handleMouseDown, nextGen,
                 current, descendants, nMutations, release>>

\* A release on target t is dispatched on the document; w tells whether the
\* caller's callback throws when it is invoked.
Release(t, w) ==
  /\ nEvents < MaxEvents
  /\ status # "rendered"
  /\ LET e == [type |-> "mouseup", target |-> t, id |-> nEvents + 1]
         s == DispatchEvent([St EXCEPT !.throws = w], e)
     IN /\ event' = e
        /\ doc' = s.doc
        /\ calls' = s.calls
        /\ thrown' = s.thrown
        /\ adds' = s.adds
        /\ removes' = s.removes
  /\ release' = [kind |-> Kind(t), live |-> Live]
  /\ relSincePress' = relSincePress + 1
  /\ relSinceOut' = relSinceOut + 1
  /\ nEvents' = nEvents + 1
  /\ step' = "release"
  /\ UNCHANGED <<status, props, handleMouseUp, handleMouseDown, nextGen,
                 current, descendants, nMutations, press>>

\* The owner of the ref sets or clears ref.current while the component is
\* mounted.
SetCurrent(r, v) ==
  /\ status = "attached"
  /\ nMutations < MaxMutations
  /\ current[r] # v
  /\ nMutations' = nMutations + 1
  /\ current' = [current EXCEPT ![r] = v]
  /\ step' = "ref"
  /\ calls' = <<>>
  /\ thrown' = FALSE
  /\ event' = NoEvent
  /\ UNCHANGED <<status, props, handleMouseUp, handleMouseDown, nextGen,
                 descendants, doc, adds, removes, nEvents, press, release, relSincePress, relSinceOut>>

\* The DOM below the root changes while the component is mounted: target t
\* enters or leaves the node of r.
MoveTarget(r, t) ==
  /\ status = "attached"
  /\ nMutations < MaxMutations
  /\ nMutations' = nMutations + 1
  /\ descendants' = [descendants EXCEPT
                       ![r] = IF t \in @ THEN @ \ {t} ELSE @ \cup {t}]
  /\ step' = "dom"
  /\ calls' = <<>>
  /\ thrown' = FALSE
  /\ event' = NoEvent
  /\ UNCHANGED <<status, props, handleMouseUp, handleMouseDown, nextGen,
                 current, doc, adds, removes, nEvents, press, release, relSincePress, relSinceOut>>

Next ==
  \/ Attach
  \/ Detach
  \/ \E p \in NextProps(props) : Render(p)
  \/ \E t \in Targets : Press(t)
  \/ \E t \in Targets, w \in BOOLEAN : Release(t, w)
  \/ \E v \in {Null, Div} : SetCurrent(props.ref, v)
  \/ \E t \in Targets : MoveTarget(props.ref, t)

Spec == Init /\ [][Next]_vars

\* ------------------------------------------------------------ claims
Armed == doc.mouseup # <<>>
NoListeners == doc.mousedown = <<>> /\ doc.mouseup = <<>>

\* The last step was a release that is the first one after a press of kind k
\* which an attached, enabled detector handled (no detach or re-sync since).
ReleaseAfterPress(k) ==
  step = "release" /\ press.live /\ press.kind = k /\ relSincePress = 1

\* C1: a press inside the current root of an attached, enabled detector arms
\* no release-listener, and the next release after it invokes no callback.
C1_InsidePressAbsorbed ==
  /\ (step = "press" /\ press.live /\ press.kind = "inside") => ~press.armed
  /\ ReleaseAfterPress("inside") => calls = <<>>

\* C2: an outside press followed by an outside release invokes the callback
\* exactly once, with that release event as its argument.
C2_OutsideOutsideFiresOnce ==
  (ReleaseAfterPress("outside") /\ release.kind = "outside")
    => calls = <<[cb |-> props.onOutsideClick, arg |-> event]>>

\* C3: an outside press followed by an inside release invokes no callback and
\* leaves the detector disarmed.
C3_OutsideInsideSilent ==
  (ReleaseAfterPress("outside") /\ release.kind = "inside")
    => (calls = <<>> /\ ~Armed)

\* C4: handling a release un-registers the release-listener, and a further
\* release with no outside press in between invokes no callback.
C4_ReleaseOneShot ==
  /\ step = "release" => ~Armed
  /\ (step = "release" /\ relSinceOut >= 2) => calls = <<>>

\* C5: one event causes at most one callback invocation, counted over every
\* listener the instance has ever registered.
C5_NoDuplicateFiring == Len(calls) <= 1

\* C6: after detach no listener of the instance remains on the document.
C6_TeardownLeakFree == status = "detached" => NoListeners

\* C7: after any number of consecutive outside presses exactly one
\* release-listener is registered, and the outside release that follows
\* invokes the callback exactly once.
C7_IdempotentRearming ==
  /\ (step = "press" /\ press.live /\ press.kind = "outside")
       => Len(doc.mouseup) = 1
  /\ (ReleaseAfterPress("outside") /\ release.kind = "outside")
       => Len(calls) = 1

\* C8: attaching a disabled configuration registers no listener, and while
\* the current configuration is disabled no press or release invokes the
\* callback.
C8_DisabledInert ==
  /\ (step = "attach" /\ props.disabled) => NoListeners
  /\ (step \in {"press", "release"} /\ Attached /\ props.disabled)
       => calls = <<>>

\* C9: the release-listener is registered exactly when the most recent press
\* was outside the root and no release has been handled since.
C9_ArmedIffPendingOutsidePress ==
  Armed <=> (press.live /\ press.kind = "outside" /\ relSincePress = 0)

\* C10: at most one press-listener and at most one release-listener are
\* registered at any time, and exactly one press-listener while the detector
\* is attached and enabled.
C10_SingleRegistration ==
  /\ Len(doc.mousedown) <= 1
  /\ Len(doc.mouseup) <= 1
  /\ Live => Len(doc.mousedown) = 1

\* C11: a detach (unmount, or the cleanup half of a re-sync) leaves no
\* release-listener registered, and a release with no press since that detach
\* invokes no callback.
C11_DetachCancelsPending ==
  /\ step \in {"detach", "resync"} => ~Armed
  /\ (step = "release" /\ status # "rendered" /\ press.kind = "none")
       => calls = <<>>

\* The release-listener of the current render, as the press handler adds it.
CurrentRelease == [fn |-> handleMouseUp, capture |-> props.useCapture]
UpRegistered == \E l \in Range(doc.mouseup) : l.fn = handleMouseUp

\* C12: a press handled while ref.current is absent arms the release-listener
\* whatever its target, and a release handled by an armed detector while
\* ref.current is absent invokes the callback with that release event.
C12_AbsentRootFailsTowardFiring ==
  [][ /\ (step' = "press" /\ Live /\ current[props.ref] = Null)
           => CurrentRelease \in Range(doc'.mouseup)
      /\ (step' = "release" /\ Live /\ current[props.ref] = Null
            /\ UpRegistered)
           => [cb |-> props.onOutsideClick, arg |-> event'] \in Range(calls')
    ]_vars

\* A release on a descendant of the (now absent) root fires the callback.
C12_Witness ==
  /\ step = "release" /\ Live /\ press.live /\ relSincePress = 1
  /\ current[props.ref] = Null
  /\ event.target \in descendants[props.ref]
  /\ calls = <<[cb |-> props.onOutsideClick, arg |-> event]>>

\* C13: when the callback throws, the release has nevertheless left the
\* detector disarmed (no release-listener registered) and the press-listener
\* of an attached, enabled detector registered.
C13_ThrowLeavesDisarmed ==
  (step = "release" /\ thrown)
    => /\ ~Armed
       /\ Live => \E l \in Range(doc.mousedown) : l.fn = handleMouseDown

\* The next step is a release that follows outside presses which an attached,
\* enabled detector handled, with no release, detach or re-sync since the
\* last of them.
ReleaseOfPendingPress ==
  step' = "release" /\ press.live /\ press.kind = "outside" /\ relSincePress = 0

\* C14: counting the add-listener and remove-listener calls since mount,
\* adds = removes + 1 just before a release that follows N >= 1 outside
\* presses, and adds = removes just after it.
C14_CountsBalanceAroundRelease ==
  [][ ReleaseOfPendingPress => (adds = removes + 1 /\ adds' = removes') ]_vars

\* C14 as amended: the balance holds around the first release after mount,
\* when no re-sync has run since mount.
C14_CountsBalanceAroundFirstRelease ==
  [][ (ReleaseOfPendingPress /\ release.kind = "none" /\ nextGen = 2)
        => (adds = removes + 1 /\ adds' = removes') ]_vars

\* Mount, two outside presses and the first release: three adds, three removes.
C14_Witness ==
  /\ ReleaseAfterPress("outside") /\ nextGen = 2
  /\ adds = 3 /\ removes = 3

\* Target t is below the current root as the DOM stands in this state.
InRoot(t) == current[props.ref] # Null /\ t \in descendants[props.ref]
OnlyCurrentRelease == \A l \in Range(doc.mouseup) : l.fn = handleMouseUp

\* C15: the press decision follows the root's descendants as they are when
\* the press is handled (outside: the release-listener is registered; inside:
\* its registration is left as it was), and the release decision follows the
\* descendants as they are when the release is handled (outside: the callback
\* is invoked with the event; inside: it is not).
C15_LiveContainment ==
  [][ /\ (step' = "press" /\ Live)
           => IF InRoot(event'.target)
                THEN (CurrentRelease \in Range(doc'.mouseup))
                       <=> (CurrentRelease \in Range(doc.mouseup))
                ELSE CurrentRelease \in Range(doc'.mouseup)
      /\ (step' = "release" /\ Live /\ Armed /\ OnlyCurrentRelease)
           => calls' = IF InRoot(event'.target)
                         THEN <<>>
                         ELSE <<[cb |-> props.onOutsideClick, arg |-> event']>>
    ]_vars

\* A target moved below the root between an outside press and the release:
\* the release on it is inside and invokes nothing.
C15_Witness ==
  /\ ReleaseAfterPress("outside") /\ nMutations = 1
  /\ current[props.ref] # Null
  /\ descendants[props.ref] = Targets
  /\ calls = <<>>

\* C16: whenever a press-listener and a release-listener are both registered,
\* all of them are registered in the phase that useCapture of the current
\* configuration names.
C16_PhaseConsistency ==
  (doc.mousedown # <<>> /\ doc.mouseup # <<>>)
    => \A l \in Range(doc.mousedown) \cup Range(doc.mouseup) :
         l.capture = props.useCapture

\* C17: a press inside the root, handled by an attached, enabled detector,
\* leaves the registered listeners as they were, makes no add-listener or
\* remove-listener call and invokes no callback.
C17_InsidePressNoOp ==
  [][ (step' = "press" /\ Live /\ InRoot(event'.target))
        => (doc' = doc /\ adds' = adds /\ removes' = removes /\ calls' = <<>>)
    ]_vars

\* C18: every callback invocation made for an attached detector is an
\* invocation of the callback of the current render, never of one that a
\* re-sync has replaced.
C18_SupersededCallbackSilent ==
  (step = "release" /\ Attached)
    => \A i \in 1..Len(calls) : calls[i].cb = props.onOutsideClick

\* C19: every remove-listener call un-registers the listener it names: after
\* a handled release no release-listener is registered, after a detach no
\* listener is, and after a re-sync only the press-listener of the new render.
C19_RemovalMatchesRegistration ==
  /\ step = "release" => ~Armed
  /\ step = "detach" => NoListeners
  /\ step = "resync"
       => /\ ~Armed
          /\ \A l \in Range(doc.mousedown) : l.fn = handleMouseDown

TypeOK ==
  /\ status \in {"rendered", "attached", "detached"}
  /\ props \in PropsSet
  /\ nextGen \in 2..(MaxRenders + 1)
  /\ nEvents \in 0..MaxEvents
  /\ nMutations \in 0..MaxMutations
  /\ current \in [Refs -> {Null, Div}]
  /\ descendants \in [Refs -> SUBSET Targets]
====
